---- MODULE Spec2Model ----
(***************************************************************************)
(* BLS12-381 min_pk verification and aggregation (src/rust/src/api/bls.rs). *)
(*                                                                         *)
(* The three public functions are thin wrappers over blst::min_pk.  The    *)
(* curve is scaled down: the prime-order subgroups G1 and G2 are Z_r with  *)
(* r = GroupOrder, and each curve carries a cofactor component Z_h with    *)
(* h = Cofactor, so that a point is [q, t] and lies in the prime-order     *)
(* subgroup iff t = 0.  The pairing of a G1 point with a G2 subgroup point *)
(* is the product of the q components modulo r (the cofactor component of  *)
(* the G1 argument is annihilated by the final exponentiation).            *)
(*                                                                         *)
(* The blst operations are modelled as the Rust binding defines them:     *)
(* from_bytes is deserialize (it accepts the compressed and the            *)
(* uncompressed form and does no subgroup check), verify validates as its  *)
(* two flags say, fast_aggregate_verify sums the keys unvalidated, and an  *)
(* infinite public key is always rejected by the pairing aggregation.      *)
(*                                                                         *)
(* A byte buffer is abstracted to [len, comp, inf, body]: its length, the  *)
(* compression and infinity flag bits of its first byte, and the rest of   *)
(* the bytes as a small code (0 = all zero, 1..NumPoints-1 = coordinates   *)
(* of that curve point, NumPoints = a field element not on the curve).     *)
(***************************************************************************)
EXTENDS Integers, Sequences, FiniteSets, TLC

VARIABLES op, sigs_bytes, pks_bytes, msg, out_bool, out_bytes

vars == <<op, sigs_bytes, pks_bytes, msg, out_bool, out_bytes>>

(* ---------------- bounds ---------------- *)

MaxLen == 3

NumMsgs == 2

(* ---------------- sizes and the scaled curve ---------------- *)

PK_COMP_SIZE == 48

SIG_COMP_SIZE == 96

GroupOrder == 5

Cofactor == 2

NumPoints == GroupOrder * Cofactor

Points == [q : 0..(GroupOrder - 1), t : 0..(Cofactor - 1)]

Infinity == [q |-> 0, t |-> 0]

Generator == [q |-> 1, t |-> 0]

PointAdd(P, R) == [q |-> (P.q + R.q) % GroupOrder, t |-> (P.t + R.t) % Cofactor]

ScalarMul(k, P) == [q |-> (k * P.q) % GroupOrder, t |-> (k * P.t) % Cofactor]

InGroup(P) == P.t = 0

IsInf(P) == P = Infinity

\* exponent of the pairing value e(P1, P2), P2 in the G2 subgroup
Pairing(P1, P2) == (P1.q * P2.q) % GroupOrder

(* ---------------- messages and hash-to-curve ---------------- *)

\* message 0 is the empty message
Msgs == 0..(NumMsgs - 1)

DST == "BLS_SIG_BLS12381G2_XMD:SHA-256_SSWU_RO_NUL_"

DST_POP == "BLS_SIG_BLS12381G2_XMD:SHA-256_SSWU_RO_POP_"

\* hash_to_g2 as a collision-free map into the non-identity elements of G2;
\* a different tag gives a different point for every message
HashToG2(m, dst) ==
    IF dst = DST THEN [q |-> (m + 1) % GroupOrder, t |-> 0]
                 ELSE [q |-> (2 * (m + 1)) % GroupOrder, t |-> 0]

(* ---------------- byte buffers ---------------- *)

Buf(n, c, i, b) == [len |-> n, comp |-> c, inf |-> i, body |-> b]

EmptyBuf == Buf(0, FALSE, FALSE, 0)

Zeros(n) == Buf(n, FALSE, FALSE, 0)

PointCode(P) == P.t * GroupOrder + P.q

CodePoint(b) == [q |-> b % GroupOrder, t |-> b \div GroupOrder]

\* blst_p1_compress / blst_p2_compress
Compress(P, size) ==
    IF IsInf(P) THEN Buf(size, TRUE, TRUE, 0)
                ELSE Buf(size, TRUE, FALSE, PointCode(P))

\* blst_p1_affine_serialize / blst_p2_affine_serialize (uncompressed form)
Serialize(P, size) ==
    IF IsInf(P) THEN Buf(2 * size, FALSE, TRUE, 0)
                ELSE Buf(2 * size, FALSE, FALSE, PointCode(P))

Ok(P) == [ok |-> TRUE, point |-> P]

Err == [ok |-> FALSE, point |-> Infinity]

\* blst_p1_deserialize / blst_p2_deserialize on a buffer of accepted length:
\* the infinity flag requires every other bit to be zero, otherwise the
\* coordinates must be a point of the curve (no subgroup check here)
DeserializeRaw(b) ==
    IF b.inf
    THEN IF b.body = 0 THEN Ok(Infinity) ELSE Err
    ELSE IF b.body >= 1 /\ b.body < NumPoints THEN Ok(CodePoint(b.body)) ELSE Err

\* PublicKey::deserialize / Signature::deserialize of the Rust binding
Deserialize(b, size) ==
    IF \/ (b.len = 2 * size /\ ~b.comp)
       \/ (b.len = size /\ b.comp)
    THEN DeserializeRaw(b)
    ELSE Err

PublicKey_from_bytes(b) == Deserialize(b, PK_COMP_SIZE)

Signature_from_bytes(b) == Deserialize(b, SIG_COMP_SIZE)

PublicKey_to_bytes(P) == Compress(P, PK_COMP_SIZE)

Signature_to_bytes(P) == Compress(P, SIG_COMP_SIZE)

\* PublicKey::validate
PublicKey_validate(P) == ~IsInf(P) /\ InGroup(P)

\* Signature::validate(sig_infcheck)
Signature_validate(P, sig_infcheck) == ~(sig_infcheck /\ IsInf(P)) /\ InGroup(P)

(* ---------------- blst::min_pk operations used by the wrappers ---------------- *)

RECURSIVE SumPoints(_)
SumPoints(ps) ==
    IF Len(ps) = 0 THEN Infinity
    ELSE PointAdd(SumPoints(SubSeq(ps, 1, Len(ps) - 1)), ps[Len(ps)])

\* blst_pairing_chk_n_aggr_pk_in_g1 + finalverify for one (pk, msg) pair:
\* an infinite public key is always rejected, the subgroup checks are
\* optional, then e(g1, sig) == e(pk, H(msg)) is evaluated
CoreVerify(sig, sig_groupcheck, m, dst, pk, pk_validate) ==
    IF IsInf(pk) THEN FALSE
    ELSE IF pk_validate /\ ~InGroup(pk) THEN FALSE
    ELSE IF sig_groupcheck /\ ~Signature_validate(sig, FALSE) THEN FALSE
    ELSE Pairing(Generator, sig) = Pairing(pk, HashToG2(m, dst))

\* Signature::verify(sig_groupcheck, msg, dst, aug = [], pk, pk_validate)
Signature_verify(sig, sig_groupcheck, m, dst, pk, pk_validate) ==
    CoreVerify(sig, sig_groupcheck, m, dst, pk, pk_validate)

\* AggregatePublicKey::aggregate(pks, pks_validate)
AggregatePublicKey_aggregate(pks, pks_validate) ==
    IF Len(pks) = 0 THEN Err
    ELSE IF pks_validate /\ \E i \in 1..Len(pks) : ~PublicKey_validate(pks[i]) THEN Err
    ELSE Ok(SumPoints(pks))

\* Signature::fast_aggregate_verify(sig_groupcheck, msg, dst, pks): the keys
\* are summed without validation and the sum is verified without validation
Signature_fast_aggregate_verify(sig, sig_groupcheck, m, dst, pks) ==
    LET agg_pk == AggregatePublicKey_aggregate(pks, FALSE)
    IN  IF ~agg_pk.ok THEN FALSE
        ELSE CoreVerify(sig, sig_groupcheck, m, dst, agg_pk.point, FALSE)

\* variant: only the first signature is group-checked
AggregateSignature_aggregate_first_checked(sigs, sigs_groupcheck) ==
    IF Len(sigs) = 0 THEN Err
    ELSE IF sigs_groupcheck /\ ~Signature_validate(sigs[1], FALSE) THEN Err
    ELSE Ok(SumPoints(sigs))

\* AggregateSignature::aggregate(sigs, sigs_groupcheck)
AggregateSignature_aggregate(sigs, sigs_groupcheck) ==
    IF Len(sigs) = 0 THEN Err
    ELSE IF sigs_groupcheck /\ \E i \in 1..Len(sigs) : ~Signature_validate(sigs[i], FALSE)
         THEN Err
    ELSE Ok(SumPoints(sigs))

(* ---------------- the three public functions ---------------- *)

\* variant: the proof-of-possession tag instead of the NUL tag
bls12381_min_pk_verify_pop_dst(sig_b, pk_b, m) ==
    LET pk  == PublicKey_from_bytes(pk_b)
        sig == Signature_from_bytes(sig_b)
    IN  IF ~pk.ok THEN FALSE
        ELSE IF ~sig.ok THEN FALSE
        ELSE Signature_verify(sig.point, TRUE, m, DST_POP, pk.point, TRUE)

\* variant: pk_validate switched off
bls12381_min_pk_verify_no_pk_validate(sig_b, pk_b, m) ==
    LET pk  == PublicKey_from_bytes(pk_b)
        sig == Signature_from_bytes(sig_b)
    IN  IF ~pk.ok THEN FALSE
        ELSE IF ~sig.ok THEN FALSE
        ELSE Signature_verify(sig.point, TRUE, m, DST, pk.point, FALSE)

bls12381_min_pk_verify(sig_b, pk_b, m) ==
    LET pk  == PublicKey_from_bytes(pk_b)
        sig == Signature_from_bytes(sig_b)
    IN  IF ~pk.ok THEN FALSE
        ELSE IF ~sig.ok THEN FALSE
        ELSE Signature_verify(sig.point, TRUE, m, DST, pk.point, TRUE)

bls12381_min_pk_aggregate(sigs_b) ==
    IF Len(sigs_b) = 0 THEN EmptyBuf
    ELSE LET sigs == [i \in 1..Len(sigs_b) |-> Signature_from_bytes(sigs_b[i])]
         IN  IF \E i \in 1..Len(sigs_b) : ~sigs[i].ok THEN EmptyBuf
             ELSE LET agg == AggregateSignature_aggregate(
                                 [i \in 1..Len(sigs_b) |-> sigs[i].point], TRUE)
                  IN  IF agg.ok THEN Signature_to_bytes(agg.point) ELSE EmptyBuf

\* variant: the last key of the list is left out of the check
bls12381_min_pk_verify_aggregate_skip_last(pks_b, m, agg_sig_b) ==
    IF Len(pks_b) = 0 THEN FALSE
    ELSE LET pks == [i \in 1..Len(pks_b) |-> PublicKey_from_bytes(pks_b[i])]
             sig == Signature_from_bytes(agg_sig_b)
             n   == IF Len(pks_b) > 1 THEN Len(pks_b) - 1 ELSE 1
         IN  IF \E i \in 1..Len(pks_b) : ~pks[i].ok THEN FALSE
             ELSE IF ~sig.ok THEN FALSE
             ELSE Signature_fast_aggregate_verify(
                      sig.point, TRUE, m, DST, [i \in 1..n |-> pks[i].point])

\* variant: single-signature verify against the first key
bls12381_min_pk_verify_aggregate_first_key(pks_b, m, agg_sig_b) ==
    IF Len(pks_b) = 0 THEN FALSE
    ELSE LET pks == [i \in 1..Len(pks_b) |-> PublicKey_from_bytes(pks_b[i])]
             sig == Signature_from_bytes(agg_sig_b)
         IN  IF \E i \in 1..Len(pks_b) : ~pks[i].ok THEN FALSE
             ELSE IF ~sig.ok THEN FALSE
             ELSE Signature_verify(sig.point, TRUE, m, DST, pks[1].point, TRUE)

\* variant: an empty key list is vacuously accepted
bls12381_min_pk_verify_aggregate_empty_ok(pks_b, m, agg_sig_b) ==
    IF Len(pks_b) = 0 THEN TRUE
    ELSE LET pks == [i \in 1..Len(pks_b) |-> PublicKey_from_bytes(pks_b[i])]
             sig == Signature_from_bytes(agg_sig_b)
         IN  IF \E i \in 1..Len(pks_b) : ~pks[i].ok THEN FALSE
             ELSE IF ~sig.ok THEN FALSE
             ELSE Signature_fast_aggregate_verify(
                      sig.point, TRUE, m, DST, [i \in 1..Len(pks_b) |-> pks[i].point])

bls12381_min_pk_verify_aggregate(pks_b, m, agg_sig_b) ==
    IF Len(pks_b) = 0 THEN FALSE
    ELSE LET pks == [i \in 1..Len(pks_b) |-> PublicKey_from_bytes(pks_b[i])]
             sig == Signature_from_bytes(agg_sig_b)
         IN  IF \E i \in 1..Len(pks_b) : ~pks[i].ok THEN FALSE
             ELSE IF ~sig.ok THEN FALSE
             ELSE Signature_fast_aggregate_verify(
                      sig.point, TRUE, m, DST, [i \in 1..Len(pks_b) |-> pks[i].point])

(* ---------------- test helpers: keygen and sign_msg ---------------- *)

\* SecretKey::key_gen never yields the zero scalar
SecretKeys == 1..(GroupOrder - 1)

\* keygen: sk.sk_to_pk()
sk_to_pk(sk) == ScalarMul(sk, Generator)

\* sign_msg: sk.sign(msg, DST, &[])
sign_msg(sk, m) == ScalarMul(sk, HashToG2(m, DST))

PkBytes(sk) == PublicKey_to_bytes(sk_to_pk(sk))

SigBytes(sk, m) == Signature_to_bytes(sign_msg(sk, m))

(* ---------------- caller-supplied buffers ---------------- *)

G1Sub == {P \in Points : InGroup(P)}

PkInputs ==
    {Compress(P, PK_COMP_SIZE) : P \in G1Sub}
    \cup {Compress([q |-> 0, t |-> 1], PK_COMP_SIZE),
          Compress([q |-> 1, t |-> 1], PK_COMP_SIZE),
          Serialize(sk_to_pk(1), PK_COMP_SIZE),
          Buf(PK_COMP_SIZE, TRUE, FALSE, NumPoints),
          EmptyBuf, Zeros(32), Zeros(PK_COMP_SIZE)}

SigInputs ==
    {Compress(P, SIG_COMP_SIZE) : P \in G1Sub}
    \cup {Compress([q |-> 1, t |-> 1], SIG_COMP_SIZE),
          Serialize(sign_msg(1, 0), SIG_COMP_SIZE),
          Buf(SIG_COMP_SIZE, TRUE, TRUE, 1),
          EmptyBuf, Zeros(10), Zeros(PK_COMP_SIZE), Zeros(SIG_COMP_SIZE)}

\* key buffers offered as list entries to verify_aggregate: every key of the
\* subgroup, the identity, a point outside the subgroup, an uncompressed
\* key and an empty buffer
PkListInputs ==
    {Compress(P, PK_COMP_SIZE) : P \in G1Sub}
    \cup {Compress([q |-> 1, t |-> 1], PK_COMP_SIZE),
          Serialize(sk_to_pk(1), PK_COMP_SIZE),
          EmptyBuf}

SeqsUpTo(S, n) == UNION {[1..k -> S] : k \in 0..n}

(* ---------------- the calls ---------------- *)

Init ==
    /\ op = "none"
    /\ sigs_bytes = <<>>
    /\ pks_bytes = <<>>
    /\ msg = 0
    /\ out_bool = FALSE
    /\ out_bytes = EmptyBuf

\* one call at a time: the functions are synchronous and keep no state
Verify ==
    /\ op = "none"
    /\ \E sig_b \in SigInputs, pk_b \in PkInputs, m \in Msgs :
        /\ op' = "verify"
        /\ sigs_bytes' = <<sig_b>>
        /\ pks_bytes' = <<pk_b>>
        /\ msg' = m
        /\ out_bool' = bls12381_min_pk_verify(sig_b, pk_b, m)
        /\ out_bytes' = EmptyBuf

Aggregate ==
    /\ op = "none"
    /\ \E sigs_b \in SeqsUpTo(SigInputs, MaxLen) :
        /\ op' = "aggregate"
        /\ sigs_bytes' = sigs_b
        /\ pks_bytes' = <<>>
        /\ msg' = 0
        /\ out_bool' = FALSE
        /\ out_bytes' = bls12381_min_pk_aggregate(sigs_b)

VerifyAggregate ==
    /\ op = "none"
    /\ \E pks_b \in SeqsUpTo(PkListInputs, MaxLen), m \in Msgs, agg_sig_b \in SigInputs :
        /\ op' = "verify_aggregate"
        /\ sigs_bytes' = <<agg_sig_b>>
        /\ pks_bytes' = pks_b
        /\ msg' = m
        /\ out_bool' = bls12381_min_pk_verify_aggregate(pks_b, m, agg_sig_b)
        /\ out_bytes' = EmptyBuf

\* the call returns and its transient values are dropped
Return ==
    /\ op # "none"
    /\ op' = "none"
    /\ sigs_bytes' = <<>>
    /\ pks_bytes' = <<>>
    /\ msg' = 0
    /\ out_bool' = FALSE
    /\ out_bytes' = EmptyBuf

Next == Verify \/ Aggregate \/ VerifyAggregate \/ Return

Spec == Init /\ [][Next]_vars

TypeOK ==
    /\ op \in {"none", "verify", "aggregate", "verify_aggregate"}
    /\ out_bool \in BOOLEAN
    /\ out_bytes.len \in {0, SIG_COMP_SIZE}

(* ---------------- properties ---------------- *)

Range(f) == {f[i] : i \in DOMAIN f}

\* a signer set, listed in some order: distinct secret keys
SignerSeqs == {s \in SeqsUpTo(SecretKeys, MaxLen) :
                  /\ Len(s) >= 1
                  /\ \A i, j \in 1..Len(s) : s[i] = s[j] => i = j}

KeysOf(s) == [i \in 1..Len(s) |-> PkBytes(s[i])]

SigsOf(s, m) == [i \in 1..Len(s) |-> SigBytes(s[i], m)]

AggOf(s, m) == bls12381_min_pk_aggregate(SigsOf(s, m))

KeySum(s) == SumPoints([i \in 1..Len(s) |-> sk_to_pk(s[i])])

Count(a, v) == Cardinality({i \in 1..Len(a) : a[i] = v})

IsPermutationOf(a, b) ==
    /\ Len(a) = Len(b)
    /\ \A v \in Range(a) \cup Range(b) : Count(a, v) = Count(b, v)

\* every signer set and message with the aggregate of the signatures
AggTable == {<<s, m, AggOf(s, m)>> : s \in SignerSeqs, m \in Msgs}

\* the signer sets whose aggregate over the call's message is the call's
\* signature buffer
Signers == {u[1] : u \in {w \in AggTable : w[2] = msg /\ w[3] = sigs_bytes[1]}}

\* the Decoder contract of the specification: exact compressed length, a
\* valid encoding, and a point of the prime-order subgroup
WellFormed(b, size) ==
    /\ b.len = size
    /\ b.comp
    /\ DeserializeRaw(b).ok
    /\ InGroup(DeserializeRaw(b).point)

MalformedPk(b) == ~WellFormed(b, PK_COMP_SIZE)

MalformedSig(b) == ~WellFormed(b, SIG_COMP_SIZE)

\* C1: a signature made with sign_msg (fixed DST, no augmentation) verifies
\* under the signer's public key and the signed message
C1_SignThenVerify ==
    op = "verify" =>
        \A sk \in SecretKeys :
            (sigs_bytes = <<SigBytes(sk, msg)>> /\ pks_bytes = <<PkBytes(sk)>>)
                => out_bool = TRUE

C1_Witness ==
    /\ op = "verify"
    /\ \E sk \in SecretKeys :
          sigs_bytes = <<SigBytes(sk, msg)>> /\ pks_bytes = <<PkBytes(sk)>>
    /\ out_bool = TRUE

\* C2: a valid signature of signer sk over m does not verify under the
\* signer's key for another message, nor for m under a key buffer that does
\* not decode to the signer's public key
C2_WrongMessageOrKey ==
    op = "verify" =>
        \A sk \in SecretKeys, m \in Msgs :
            sigs_bytes = <<SigBytes(sk, m)>> =>
                /\ (pks_bytes = <<PkBytes(sk)>> /\ msg # m) => out_bool = FALSE
                /\ (msg = m /\ PublicKey_from_bytes(pks_bytes[1]) # Ok(sk_to_pk(sk)))
                       => out_bool = FALSE

C2_Witness ==
    /\ op = "verify"
    /\ out_bool = FALSE
    /\ \E sk \in SecretKeys :
          /\ sigs_bytes = <<SigBytes(sk, msg)>>
          /\ \E sk2 \in SecretKeys \ {sk} : pks_bytes = <<PkBytes(sk2)>>

\* C3 (as stated): for the aggregate of a signer set over the message,
\* verifyAggregate returns true iff the supplied keys are exactly the
\* signers' keys
C3_ExactSignerSet ==
    op = "verify_aggregate" =>
        \A s \in Signers :
                (out_bool = TRUE <=> IsPermutationOf(pks_bytes, KeysOf(s)))

\* C3 (amended): for the aggregate of a signer set over the message,
\* verifyAggregate returns true only if every supplied key decodes and the
\* supplied keys sum to a non-identity point that pairs like the sum of the
\* signers' keys; and the signers' keys plus the valid key of one non-signer
\* are rejected
C3_KeySumAndExtraKey ==
    op = "verify_aggregate" =>
        \A s \in Signers :
                /\ out_bool = TRUE =>
                      /\ \A i \in 1..Len(pks_bytes) : PublicKey_from_bytes(pks_bytes[i]).ok
                      /\ LET sum == SumPoints([i \in 1..Len(pks_bytes) |->
                                         PublicKey_from_bytes(pks_bytes[i]).point])
                         IN  ~IsInf(sum) /\ sum.q = KeySum(s).q
                /\ \A x \in SecretKeys \ Range(s) :
                      IsPermutationOf(pks_bytes, Append(KeysOf(s), PkBytes(x)))
                          => out_bool = FALSE

C3_Witness ==
    /\ op = "verify_aggregate"
    /\ out_bool = FALSE
    /\ \E s \in Signers :
          /\ Len(s) = 2
          /\ \E x \in SecretKeys \ Range(s) :
                pks_bytes = Append(KeysOf(s), PkBytes(x))

\* C4 (as stated): the aggregate of any non-empty signer set over one
\* message verifies against the signers' keys
C4_AggregateVerifies ==
    op = "verify_aggregate" =>
        \A s \in Signers :
            pks_bytes = KeysOf(s) => out_bool = TRUE

\* C4 (amended): the aggregate of a non-empty signer set over one message
\* verifies against the signers' keys whenever those keys do not sum to the
\* identity point
C4_AggregateVerifiesNonZeroSum ==
    op = "verify_aggregate" =>
        \A s \in Signers :
            (pks_bytes = KeysOf(s) /\ ~IsInf(KeySum(s))) => out_bool = TRUE

C4_Witness ==
    /\ op = "verify_aggregate"
    /\ out_bool = TRUE
    /\ \E s \in Signers :
          /\ Len(s) >= 2
          /\ pks_bytes = KeysOf(s)

\* C5: verify returns false whenever the signature or the public key is
\* malformed (wrong length, invalid encoding, outside the subgroup)
C5_MalformedVerifyFalse ==
    op = "verify" =>
        /\ out_bool \in BOOLEAN
        /\ ((MalformedSig(sigs_bytes[1]) \/ MalformedPk(pks_bytes[1])) => out_bool = FALSE)

\* C6: aggregate returns the empty buffer when the list is empty or any
\* entry is malformed, and exactly 96 bytes otherwise
C6_AggregateAllOrNothing ==
    op = "aggregate" =>
        IF sigs_bytes = <<>> \/ \E i \in 1..Len(sigs_bytes) : MalformedSig(sigs_bytes[i])
        THEN out_bytes = EmptyBuf
        ELSE out_bytes.len = SIG_COMP_SIZE

\* C7: aggregate returns the same bytes for every permutation of its list
C7_OrderIndependent ==
    op = "aggregate" =>
        \A f \in [1..Len(sigs_bytes) -> 1..Len(sigs_bytes)] :
            (\A i, j \in 1..Len(sigs_bytes) : f[i] = f[j] => i = j)
                => bls12381_min_pk_aggregate(
                       [i \in 1..Len(sigs_bytes) |-> sigs_bytes[f[i]]]) = out_bytes

C7_Witness ==
    /\ op = "aggregate"
    /\ Len(sigs_bytes) = 3
    /\ sigs_bytes[1] # sigs_bytes[2]
    /\ sigs_bytes[2] # sigs_bytes[3]
    /\ sigs_bytes[1] # sigs_bytes[3]
    /\ out_bytes.len = SIG_COMP_SIZE

\* C8: aggregating a single accepted signature buffer returns that buffer
C8_SingletonIdentical ==
    (op = "aggregate" /\ Len(sigs_bytes) = 1 /\ out_bytes # EmptyBuf)
        => out_bytes = sigs_bytes[1]

\* C9: verifyAggregate with an empty key list returns false for every
\* message and signature buffer
C9_EmptyKeysFalse ==
    (op = "verify_aggregate" /\ pks_bytes = <<>>) => out_bool = FALSE

C9_Witness ==
    /\ op = "verify_aggregate"
    /\ pks_bytes = <<>>
    /\ sigs_bytes = <<Signature_to_bytes(Infinity)>>
    /\ out_bool = FALSE

\* pk_validate applied to a key buffer: well-formed and not the identity
PkValidated(b) == WellFormed(b, PK_COMP_SIZE) /\ ~IsInf(DeserializeRaw(b).point)

\* C10: verifyAggregate returns false if any key buffer fails the full
\* key check (length, encoding, identity, subgroup) or the signature
\* buffer fails its length, encoding or subgroup check
C10_AllKeysValidated ==
    op = "verify_aggregate" =>
        (((\E i \in 1..Len(pks_bytes) : ~PkValidated(pks_bytes[i]))
            \/ MalformedSig(sigs_bytes[1])) => out_bool = FALSE)
====
